---- MODULE Spec2Model ----
(***************************************************************************)
(* Model of the animation video generator: the timeline capture driver     *)
(* recordCanvas (src/app/hooks/useCanvasRecorder.ts) and the page that     *)
(* calls it (src/app/page.tsx).                                            *)
(*                                                                         *)
(* Time is in milliseconds, as performance.now() reports it.  The host     *)
(* (window, MediaRecorder, timers, animation frames) is the environment:   *)
(* its events are the actions, and the handlers the code installs are what *)
(* the actions do.                                                         *)
(***************************************************************************)
EXTENDS Integers, Sequences, FiniteSets, TLC

(***************************************************************************)
(* Bounds of the exploration.                                              *)
(***************************************************************************)
\* the clock may advance by this many ms while a handler runs between two
\* reads of performance.now() (lines 24 and 29 of useCanvasRecorder.ts)
MaxSyncLag == 1
\* the quantum by which the clock advances when nothing is due (latency)
ClockStep == 100
\* the longest a call of renderAtTime takes, ms: the time between the clock
\* read of line 29 and the setTimeout of line 33
MaxPaint == 15
\* how long the clock is followed before the first capture is called
MaxIdle == 100
\* how long the clock is followed after a capture's duration has expired
MaxOvertime == 200
\* timesliced chunks the encoder delivers before its final one
MaxChunks == 2
\* timesliced chunks followed in a capture that the page started
MaxPageChunks == 1
\* the quantum by which the clock advances in the exploration of the page
PageClockStep == 7000
\* captures the page starts
MaxCaptures == 2
\* animation frames the page requests
MaxFrames == 3

\* stands for the number NaN: no number of the model, and below them all, so
\* that a comparison with it that the code makes is written out where it is
\* made
NaN == 0 - 2 ^ 20

\* a number as a fraction; the whole number n
Frac(n, d) == [num |-> n, den |-> d]
Whole(n) == Frac(n, 1)

\* the arguments recordCanvas is called with, as <<fps, durationSec, ms a
\* call of the renderAtTime given takes>>: every duration with the frame
\* rates of Fps and a renderAtTime that takes no time or some, duration 0
\* with the rates of EdgeFps (one rendering step, then the stop), duration
\* -1 with those of NonPositiveFps (whose timeouts would have no delay), and
\* a NaN fps
Fps == {Whole(3)}
Durations == {-1, 0, 1}
EdgeFps ==
  {Frac(9, 10), Frac(9, 2), Whole(5), Whole(10), Whole(60), Frac(607, 10),
   Whole(120)}
NonPositiveFps == {Whole(0), Whole(-5)}
Calls ==
  (Fps \X Durations \X {0, MaxPaint}) \cup (EdgeFps \X {0} \X {0})
    \cup (NonPositiveFps \X {-1} \X {0}) \cup {<<Whole(NaN), 1, 0>>}
\* the calls in which the steps are counted: one second at 10 frames a
\* second, with a renderAtTime that takes no time and one that does; at a
\* fraction; and at 36, whose timeouts of 27 ms wait less than 1000 / 36 ms
\* by enough for a step more
PacedFps == {Frac(399, 100), Whole(36)}
PacedCalls ==
  (PacedFps \X {1} \X {0})
    \cup {<<Whole(10), 1, 0>>, <<Whole(10), 1, MaxPaint>>}
\* the values the user types into the page's Duration input
PageDurations == {NaN}
\* the values the user types into the page's FPS input
PageFps == {Whole(60), Whole(NaN)}

(***************************************************************************)
(* Helpers.                                                                *)
(***************************************************************************)
Max(a, b) == IF a >= b THEN a ELSE b
Min(a, b) == IF a <= b THEN a ELSE b
Range(s) == {s[i] : i \in 1..Len(s)}
Once(log, e) == IF e \in Range(log) THEN log ELSE Append(log, e)

VARIABLES
  now,       \* performance.now(), ms
  host,      \* what the window offers: MediaRecorder, vp9 support
  session,   \* the closure of one recordCanvas call and its host objects
  page       \* the Page component: React state, effect closure, frames

vars == <<now, host, session, page>>

(***************************************************************************)
(* The state of one call of recordCanvas.  Fields carry the names of the   *)
(* locals of the function; the last ones are history of what it did.       *)
(***************************************************************************)
NoBlob == [parts |-> <<>>, type |-> "none"]
NoOptions == [mimeType |-> "none", videoBitsPerSecond |-> 0]

NoSession ==
  [ done        |-> "none",      \* the promise the caller holds
    fps         |-> Whole(0),
    durationSec |-> 0,
    paint       |-> 0,           \* ms a call of the renderAtTime given takes
    stream      |-> "none",      \* none / live / ended (tracks stopped)
    streamRate  |-> 0,
    options     |-> NoOptions,
    recorder    |-> "none",      \* none / inactive / recording
    timeslice   |-> 0,
    handlers    |-> {},          \* handlers installed on the recorder
    flush       |-> "none",      \* after stop(): data, stop, done
    chunks      |-> <<>>,
    started     |-> 0,
    clockTaken  |-> FALSE,
    timer       |-> 0,           \* 0 is undefined
    timeouts    |-> {},          \* pending window timeouts
    nextHandle  |-> 1,
    blob        |-> NoBlob,
    \* history
    delivered   |-> <<>>,        \* every chunk event the encoder fired
    atStop      |-> <<>>,        \* chunks delivered before the stop event
    renderCount |-> 0,           \* invocations of renderAtTime
    startCalls  |-> 0,
    stopCalls   |-> 0,
    resolveCalls|-> 0,
    t           |-> 0,           \* ms of virtual time seen by the latest step
    threw       |-> FALSE,       \* renderAtTime threw
    late        |-> FALSE,       \* a timeout was called back after it was due
    lost        |-> 0,           \* ms of latency so far: between the reads of
                                 \* lines 24 and 29, in renderAtTime, and of
                                 \* timeouts called back after they were due
    log         |-> <<>> ]       \* lifecycle events, in order of first occurrence


(***************************************************************************)
(* The host.                                                               *)
(***************************************************************************)
Hosts ==
  { [mediaRecorder |-> FALSE, vp9 |-> FALSE],
    [mediaRecorder |-> TRUE,  vp9 |-> FALSE],
    [mediaRecorder |-> TRUE,  vp9 |-> TRUE] }

\* the sizes of the blobs the encoder delivers: empty, or not
ChunkSizes == {0, 1}
\* the k-th chunk event's data
ChunkData(k) == {[id |-> k, size |-> z] : z \in ChunkSizes}

\* stands for the number Infinity: above every number of the model
Infinity == 2 ^ 30

\* Math.floor of a fraction; a positive number over 0 is Infinity
Floor(q) ==
  IF q.num = NaN THEN NaN
  ELSE IF q.den > 0 THEN q.num \div q.den
  ELSE IF q.den < 0 THEN (0 - q.num) \div (0 - q.den)
  ELSE Infinity

\* window.setTimeout(cb, delay) called at clock reading at: the handle is
\* s.nextHandle; the host converts the delay to a whole number of ms (0 for
\* Infinity), at least 0, and never calls back before it has passed
setTimeout(s, at, delay) ==
  [s EXCEPT !.timeouts = @ \cup
              {[id |-> s.nextHandle,
                due |-> at + (IF delay.den = 0 THEN 0 ELSE Max(0, Floor(delay))),
                delay |-> delay]},
            !.nextHandle = @ + 1]

\* window.clearTimeout(id)
clearTimeout(s, id) == [s EXCEPT !.timeouts = {x \in @ : x.id # id}]

\* MediaRecorder.start(timeslice)
recorderStart(s, ts) ==
  [s EXCEPT !.recorder = "recording", !.timeslice = ts,
            !.startCalls = @ + 1, !.log = Once(@, "start")]

\* MediaRecorder.stop(): a recording recorder becomes inactive and the host
\* queues its last dataavailable event and then its stop event
recorderStop(s) ==
  LET c == [s EXCEPT !.stopCalls = @ + 1, !.log = Once(@, "stop")] IN
  IF c.recorder = "recording"
  THEN [c EXCEPT !.recorder = "inactive", !.flush = "data"]
  ELSE c

(***************************************************************************)
(* recordCanvas.                                                           *)
(***************************************************************************)
\* the stream rate without its upper clamp
StreamRate_unclamped(fps) ==
  IF Floor(fps) = NaN THEN NaN ELSE Max(1, Floor(fps))

\* line 11: Math.min(60, Math.max(1, Math.floor(fps)))
StreamRate(fps) ==
  IF Floor(fps) = NaN THEN NaN ELSE Min(60, Max(1, Floor(fps)))

\* lines 12-15
Options ==
  IF host.vp9
  THEN [mimeType |-> "video/webm;codecs=vp9", videoBitsPerSecond |-> 6000000]
  ELSE [mimeType |-> "video/webm", videoBitsPerSecond |-> 6000000]

\* the frame interval taken ten times too short
frameIntervalMs_short(fps) == Frac(100 * fps.den, fps.num)

\* line 25: 1000 / fps, kept as a fraction
frameIntervalMs(fps) == Frac(1000 * fps.den, fps.num)

\* the argument of recorder.start without its lower bound
Timeslice_unbounded(fps) == Floor(frameIntervalMs(fps))

\* line 48: the argument of recorder.start
Timeslice(fps) == Max(200, Floor(frameIntervalMs(fps)))

\* ondataavailable without its test of the size
ondataavailable_push(s, data) == [s EXCEPT !.chunks = Append(@, data)]

\* lines 20-22: recorder.ondataavailable
ondataavailable(s, data) ==
  IF data.size > 0 THEN [s EXCEPT !.chunks = Append(@, data)] ELSE s

\* onstop making an artifact of the bare container type
onstop_bareType(s) ==
  [s EXCEPT !.blob = [parts |-> s.chunks, type |-> "video/webm"],
            !.done = IF @ = "pending" THEN "resolved" ELSE @,
            !.resolveCalls = @ + 1,
            !.log = Once(@, "blob")]

\* lines 42-45: recorder.onstop
onstop(s) ==
  [s EXCEPT !.blob = [parts |-> s.chunks, type |-> s.options.mimeType],
            !.done = IF @ = "pending" THEN "resolved" ELSE @,
            !.resolveCalls = @ + 1,
            !.log = Once(@, "blob")]

\* run stopping the encoder only when a timeout was set before
run_guardedStop(s, at, paint, throws) ==
  LET t == at - s.started IN
  IF s.durationSec # NaN /\ t <= s.durationSec * 1000
  THEN LET r == [s EXCEPT !.renderCount = @ + 1, !.t = t,
                          !.log = Once(@, "render")] IN
       IF throws
       THEN [r EXCEPT !.threw = TRUE]
       ELSE [setTimeout(r, at + paint, frameIntervalMs(s.fps)) EXCEPT
               !.timer = s.nextHandle]
  ELSE IF s.timer # 0
       THEN [clearTimeout(recorderStop([s EXCEPT !.t = t]), s.timer) EXCEPT
               !.stream = "ended"]
       ELSE [s EXCEPT !.stream = "ended"]

\* run setting its next timeout after the test, on both branches
run_rearm(s, at, paint, throws) ==
  LET t == at - s.started IN
  IF s.durationSec # NaN /\ t <= s.durationSec * 1000
  THEN LET r == [s EXCEPT !.renderCount = @ + 1, !.t = t,
                          !.log = Once(@, "render")] IN
       IF throws
       THEN [r EXCEPT !.threw = TRUE]
       ELSE [setTimeout(r, at + paint, frameIntervalMs(s.fps)) EXCEPT
               !.timer = s.nextHandle]
  ELSE LET a == recorderStop([s EXCEPT !.t = t])
           b == IF a.timer # 0 THEN clearTimeout(a, a.timer) ELSE a
       IN [setTimeout(b, at, frameIntervalMs(s.fps)) EXCEPT
             !.stream = "ended", !.timer = b.nextHandle]

\* run painting a last frame in the step that stops the encoder
run_finalFrame(s, at, paint, throws) ==
  LET t == at - s.started IN
  IF s.durationSec # NaN /\ t <= s.durationSec * 1000
  THEN LET r == [s EXCEPT !.renderCount = @ + 1, !.t = t,
                          !.log = Once(@, "render")] IN
       IF throws
       THEN [r EXCEPT !.threw = TRUE]
       ELSE [setTimeout(r, at + paint, frameIntervalMs(s.fps)) EXCEPT
               !.timer = s.nextHandle]
  ELSE LET a == recorderStop([s EXCEPT !.t = t, !.renderCount = @ + 1])
           b == IF a.timer # 0 THEN clearTimeout(a, a.timer) ELSE a
       IN [b EXCEPT !.stream = "ended"]

\* run setting a second timeout after each frame
run_twoTimers(s, at, paint, throws) ==
  LET t == at - s.started IN
  IF s.durationSec # NaN /\ t <= s.durationSec * 1000
  THEN LET r == [s EXCEPT !.renderCount = @ + 1, !.t = t,
                          !.log = Once(@, "render")] IN
       IF throws
       THEN [r EXCEPT !.threw = TRUE]
       ELSE [setTimeout(setTimeout(r, at + paint, frameIntervalMs(s.fps)),
                        at + paint, frameIntervalMs(s.fps)) EXCEPT
               !.timer = s.nextHandle + 1]
  ELSE LET a == recorderStop([s EXCEPT !.t = t])
           b == IF a.timer # 0 THEN clearTimeout(a, a.timer) ELSE a
       IN [b EXCEPT !.stream = "ended"]

\* run paced by the rate of the stream
run_streamPaced(s, at, paint, throws) ==
  LET t == at - s.started IN
  IF s.durationSec # NaN /\ t <= s.durationSec * 1000
  THEN LET r == [s EXCEPT !.renderCount = @ + 1, !.t = t,
                          !.log = Once(@, "render")] IN
       IF throws
       THEN [r EXCEPT !.threw = TRUE]
       ELSE [setTimeout(r, at + paint, frameIntervalMs(Whole(s.streamRate))) EXCEPT
               !.timer = s.nextHandle]
  ELSE LET a == recorderStop([s EXCEPT !.t = t])
           b == IF a.timer # 0 THEN clearTimeout(a, a.timer) ELSE a
       IN [b EXCEPT !.stream = "ended"]

\* lines 28-39: one step, reading the clock as at on line 29; renderAtTime,
\* when the step calls it, takes paint ms, so that line 33 sets the timeout
\* at the clock reading at + paint; throws says whether renderAtTime raises
run(s, at, paint, throws) ==
  LET t == at - s.started IN   \* ms: the code's t is t / 1000
  IF s.durationSec # NaN /\ t <= s.durationSec * 1000
  THEN LET r == [s EXCEPT !.renderCount = @ + 1, !.t = t,
                          !.log = Once(@, "render")] IN
       IF throws
       THEN [r EXCEPT !.threw = TRUE]
       ELSE [setTimeout(r, at + paint, frameIntervalMs(s.fps)) EXCEPT
               !.timer = s.nextHandle]
  ELSE LET a == recorderStop([s EXCEPT !.t = t])
           b == IF a.timer # 0 THEN clearTimeout(a, a.timer) ELSE a
       IN [b EXCEPT !.stream = "ended"]

\* recordCanvas without the test of lines 7-9
recordCanvas_unchecked(prev, f, d, lag, paint, throws) ==
  IF StreamRate(f) = NaN
  THEN [NoSession EXCEPT !.fps = f, !.durationSec = d, !.paint = paint,
                         !.nextHandle = prev.nextHandle, !.done = "rejected"]
  ELSE
  LET s1 == [NoSession EXCEPT !.fps = f, !.durationSec = d, !.paint = paint,
                              !.nextHandle = prev.nextHandle,
                              !.stream = "live", !.streamRate = StreamRate(f),
                              !.options = Options, !.recorder = "inactive",
                              !.handlers = {"ondataavailable", "onstop"},
                              !.log = <<"ondataavailable", "onstop">>,
                              !.started = now, !.clockTaken = TRUE,
                              !.done = "pending"]
      s4 == run(recorderStart(s1, Timeslice(f)),
                now + lag, paint, throws)
  IN IF s4.threw THEN [s4 EXCEPT !.done = "rejected"] ELSE s4

\* recordCanvas with lines 48 and 49 exchanged: run() before recorder.start()
recordCanvas_runFirst(prev, f, d, lag, paint, throws) ==
  LET s0 == [NoSession EXCEPT !.fps = f, !.durationSec = d, !.paint = paint,
                              !.nextHandle = prev.nextHandle]
  IN
  IF ~host.mediaRecorder
  THEN [s0 EXCEPT !.done = "rejected"]
  ELSE IF StreamRate(f) = NaN
  THEN [s0 EXCEPT !.done = "rejected"]
  ELSE
    LET s1 == [s0 EXCEPT !.stream = "live", !.streamRate = StreamRate(f),
                         !.options = Options, !.recorder = "inactive",
                         !.handlers = {"ondataavailable", "onstop"},
                         !.log = <<"ondataavailable", "onstop">>,
                         !.started = now, !.clockTaken = TRUE,
                         !.done = "pending"]
        s3 == run(s1, now + lag, paint, throws)
        s4 == IF s3.threw THEN s3
              ELSE recorderStart(s3, Timeslice(f))
    IN IF s4.threw THEN [s4 EXCEPT !.done = "rejected"] ELSE s4

\* lines 1-52: the call, up to the return of the promise.  prev is the
\* session before (timer handles are the window's and keep counting), lag
\* the time that passes between the reads of lines 24 and 29, paint the time
\* the first renderAtTime takes.  captureStream
\* takes a double and throws a TypeError for NaN, which rejects the promise
\* of the async function
recordCanvas(prev, f, d, lag, paint, throws) ==
  LET s0 == [NoSession EXCEPT !.fps = f, !.durationSec = d, !.paint = paint,
                              !.nextHandle = prev.nextHandle]
  IN
  IF ~host.mediaRecorder
  THEN [s0 EXCEPT !.done = "rejected"]
  ELSE IF StreamRate(f) = NaN
  THEN [s0 EXCEPT !.done = "rejected"]
  ELSE
    LET s1 == [s0 EXCEPT !.stream = "live", !.streamRate = StreamRate(f),
                         !.options = Options, !.recorder = "inactive",
                         !.handlers = {"ondataavailable"},
                         !.log = <<"ondataavailable">>,
                         !.started = now, !.clockTaken = TRUE]
        s2 == [s1 EXCEPT !.handlers = @ \cup {"onstop"},
                         !.log = Append(@, "onstop"),
                         !.done = "pending"]
        s3 == recorderStart(s2, Timeslice(f))
        s4 == run(s3, now + lag, paint, throws)
    IN IF s4.threw THEN [s4 EXCEPT !.done = "rejected"] ELSE s4



(***************************************************************************)
(* The numbers of the page's arithmetic: IEEE 754 doubles, at least 0.     *)
(* A double is m * 2^e, or NaN; m is a natural number of up to 54 bits,    *)
(* written as limbs in base 2^15, the least significant first.             *)
(***************************************************************************)
Base == 2 ^ 15

RECURSIVE Bits(_)
\* the number of bits of the natural number n
Bits(n) == IF n = 0 THEN 0 ELSE 1 + Bits(n \div 2)

RECURSIVE Limbs(_)
\* the limbs of the natural number n
Limbs(n) == IF n = 0 THEN <<>> ELSE <<n % Base>> \o Limbs(n \div Base)

RECURSIVE Trim(_)
\* x without its leading zero limbs
Trim(x) ==
  IF x = <<>> \/ x[Len(x)] # 0 THEN x ELSE Trim(SubSeq(x, 1, Len(x) - 1))

RECURSIVE Value(_)
\* the number of the limbs x, which is below 2^30
Value(x) == IF x = <<>> THEN 0 ELSE x[1] + Base * Value(Tail(x))

\* the number of bits of x
BitLen(x) == IF x = <<>> THEN 0 ELSE 15 * (Len(x) - 1) + Bits(x[Len(x)])

RECURSIVE MulSmall(_, _, _)
\* x * q + carry, q at most 2^15
MulSmall(x, q, carry) ==
  IF x = <<>> THEN Limbs(carry)
  ELSE LET v == x[1] * q + carry
       IN <<v % Base>> \o MulSmall(Tail(x), q, v \div Base)

RECURSIVE DivSmall(_, _)
\* the quotient (untrimmed) and the remainder of x by q, q below 2^15
DivSmall(x, q) ==
  IF x = <<>> THEN [quo |-> <<>>, rem |-> 0]
  ELSE LET h == DivSmall(Tail(x), q)
           v == h.rem * Base + x[1]
       IN [quo |-> <<v \div q>> \o h.quo, rem |-> v % q]

RECURSIVE AddLimbs(_, _, _)
\* x + y + carry
AddLimbs(x, y, carry) ==
  IF x = <<>> /\ y = <<>> THEN Limbs(carry)
  ELSE LET a == IF x = <<>> THEN 0 ELSE x[1]
           b == IF y = <<>> THEN 0 ELSE y[1]
           v == a + b + carry
       IN <<v % Base>> \o AddLimbs(IF x = <<>> THEN x ELSE Tail(x),
                                   IF y = <<>> THEN y ELSE Tail(y), v \div Base)

RECURSIVE SubLimbs(_, _, _)
\* x - y - borrow (untrimmed), for x at least y + borrow
SubLimbs(x, y, borrow) ==
  IF x = <<>> THEN <<>>
  ELSE LET b == IF y = <<>> THEN 0 ELSE y[1]
           v == x[1] - b - borrow
       IN <<(v + Base) % Base>> \o
          SubLimbs(Tail(x), IF y = <<>> THEN y ELSE Tail(y), IF v < 0 THEN 1 ELSE 0)

RECURSIVE LessLimbs(_, _)
\* x < y, for trimmed x and y
LessLimbs(x, y) ==
  IF Len(x) # Len(y) THEN Len(x) < Len(y)
  ELSE IF x = <<>> THEN FALSE
  ELSE IF x[Len(x)] # y[Len(y)] THEN x[Len(x)] < y[Len(y)]
  ELSE LessLimbs(Trim(SubSeq(x, 1, Len(x) - 1)), Trim(SubSeq(y, 1, Len(y) - 1)))

\* x * 2^k
ShiftLeft(x, k) ==
  IF x = <<>> THEN x
  ELSE [i \in 1..(k \div 15) |-> 0] \o MulSmall(x, 2 ^ (k % 15), 0)

\* x \div 2^k
ShiftRight(x, k) ==
  IF k \div 15 >= Len(x) THEN <<>>
  ELSE Trim(DivSmall(SubSeq(x, k \div 15 + 1, Len(x)), 2 ^ (k % 15)).quo)

RECURSIVE MulLimbs(_, _)
\* x * y
MulLimbs(x, y) ==
  IF y = <<>> \/ x = <<>> THEN <<>>
  ELSE AddLimbs(MulSmall(x, y[1], 0), <<0>> \o MulLimbs(x, Tail(y)), 0)

NaNDouble == [nan |-> TRUE, m |-> <<>>, e |-> 0]
Double(m, e) == [nan |-> FALSE, m |-> m, e |-> IF m = <<>> THEN 0 ELSE e]

\* the double of a whole number from 0 up
ToDouble(n) == Double(Limbs(n), 0)

\* the double nearest to n * 2^ex / q, ties to the even one: what the
\* operators / and * give.  n is not 0, q is from 1 to below 2^14
Rounded(n, q, ex) ==
  LET k0 == 53 + Bits(q) - BitLen(n)
      n0 == ShiftLeft(n, Max(0, k0))
      q1 == q * 2 ^ Max(0, 0 - k0)
      d1 == DivSmall(n0, q1)
      wide == BitLen(Trim(d1.quo)) > 53
      q2 == IF wide THEN 2 * q1 ELSE q1
      d2 == IF wide THEN DivSmall(n0, q2) ELSE d1
      up == 2 * d2.rem > q2 \/ (2 * d2.rem = q2 /\ d2.quo[1] % 2 = 1)
  IN Double(IF up THEN AddLimbs(Trim(d2.quo), <<>>, 1) ELSE Trim(d2.quo),
            ex - k0 + (IF wide THEN 1 ELSE 0))

\* x / q and x * q for a double x and a whole number q from 1 up
DivideBy(x, q) == IF x.m = <<>> THEN x ELSE Rounded(x.m, q, x.e)
TimesWhole(x, q) == IF x.m = <<>> THEN x ELSE Rounded(MulSmall(x.m, q, 0), 1, x.e)

\* Math.floor(x) as a whole number, Infinity standing for those from 2^30
MathFloor(x) ==
  IF x.e >= 0
  THEN IF BitLen(x.m) + x.e > 30 THEN Infinity ELSE Value(ShiftLeft(x.m, x.e))
  ELSE IF BitLen(x.m) + x.e > 30 THEN Infinity
       ELSE Value(ShiftRight(x.m, 0 - x.e))

\* x is a whole number
IsWhole(x) ==
  x.e >= 0 \/ x.m = ShiftLeft(ShiftRight(x.m, 0 - x.e), 0 - x.e)

\* x < y
LessThan(x, y) ==
  LET e0 == Min(x.e, y.e)
  IN LessLimbs(ShiftLeft(x.m, x.e - e0), ShiftLeft(y.m, y.e - e0))

\* the literal 0.001
Milli == Rounded(<<1>>, 1000, 0)

\* x % d for a whole number d from 1 up: the remainder is exact
ModWhole(x, d) ==
  IF x.e >= 0
  THEN ToDouble(DivSmall(ShiftLeft(x.m, x.e), d).rem)
  ELSE LET whole == ShiftRight(x.m, 0 - x.e)
           part == Trim(SubLimbs(x.m, ShiftLeft(whole, 0 - x.e), 0))
           left == Limbs(DivSmall(whole, d).rem)
       IN Double(AddLimbs(ShiftLeft(left, 0 - x.e), part, 0), x.e)

\* x % 0.001 for x the double of elapsedMs / 1000: the quotient is elapsedMs
\* or one less, and the remainder is exact
ModMilli(x, elapsedMs) ==
  LET e0 == Min(x.e, Milli.e)
      a == ShiftLeft(x.m, x.e - e0)
      unit == ShiftLeft(Milli.m, Milli.e - e0)
      all == MulLimbs(unit, Limbs(elapsedMs))
  IN IF LessLimbs(a, all)
     THEN Double(Trim(SubLimbs(AddLimbs(a, unit, 0), all, 0)), e0)
     ELSE Double(Trim(SubLimbs(a, all, 0)), e0)

(***************************************************************************)
(* The page.                                                               *)
(***************************************************************************)
\* window.requestAnimationFrame(cb): the handle is p.nextFrame.  A frame
\* carries what its callback closes over: the effect's start and duration
\* for loop, the onRender call (and its start and duration) for
\* updateProgress
requestAnimationFrame(p, cb, start, duration, call) ==
  [p EXCEPT !.frames = @ \cup {[id |-> p.nextFrame, cb |-> cb, start |-> start,
                                duration |-> duration, call |-> call]},
            !.nextFrame = @ + 1]

\* window.cancelAnimationFrame(id)
cancelAnimationFrame(p, id) == [p EXCEPT !.frames = {f \in @ : f.id # id}]

\* page.tsx lines 78-94: the preview effect's cleanup and its next run, at
\* clock reading at, after a render that changed one of its dependencies
useEffect(p, at) ==
  LET c == cancelAnimationFrame(p, p.raf) IN
  IF c.isPreviewing
  THEN [requestAnimationFrame(c, "loop", at, c.duration, 0) EXCEPT
          !.raf = c.nextFrame, !.start = at]
  ELSE [c EXCEPT !.raf = 0, !.start = at]

\* lines 26-48: the component before its first effect
Unmounted ==
  [ isPreviewing |-> TRUE,
    isRendering  |-> FALSE,
    progress     |-> 0,
    fps          |-> Whole(30),
    duration     |-> 6,
    raf          |-> 0,       \* the effect's raf
    start        |-> 0,       \* the effect's start
    frames       |-> {},      \* pending animation frame requests
    nextFrame    |-> 1,
    awaiting     |-> FALSE,   \* onRender is at its await
    flags        |-> <<>>,    \* the local isRendering of each onRender call
    \* history
    t            |-> ToDouble(0),  \* virtual time last passed by the loop
    alerts       |-> 0,
    downloads    |-> 0,
    overlap      |-> FALSE ]  \* the preview loop rendered during a capture

\* line 83: ((now - start) / 1000) % Math.max(0.001, duration), a double of
\* seconds; the duration is NaN or a whole number
PreviewTime(elapsedMs, duration) ==
  IF duration = NaN THEN NaNDouble
  ELSE LET x == DivideBy(ToDouble(elapsedMs), 1000)
       IN IF duration >= 1 THEN ModWhole(x, duration) ELSE ModMilli(x, elapsedMs)

\* line 105: Math.min(100, Math.floor((elapsed / duration) * 100)), for
\* elapsed = elapsedMs / 1000, at least 0, and the duration NaN or a whole
\* number
Progress(elapsedMs, duration) ==
  IF duration = NaN \/ (duration = 0 /\ elapsedMs = 0) THEN NaN
  ELSE IF duration = 0 THEN 100
  ELSE LET elapsed == DivideBy(ToDouble(elapsedMs), 1000)
           size == TimesWhole(DivideBy(elapsed, Max(duration, 0 - duration)), 100)
       IN IF duration > 0 THEN Min(100, MathFloor(size))
          ELSE 0 - (MathFloor(size) + (IF IsWhole(size) THEN 0 ELSE 1))

\* onRender with the statements of its finally block at the end of its try
afterAwait_noFinally(p, outcome) ==
  IF outcome = "resolved"
  THEN [p EXCEPT !.downloads = @ + 1, !.flags[Len(p.flags)] = FALSE,
                 !.isRendering = FALSE, !.progress = 100, !.awaiting = FALSE]
  ELSE [p EXCEPT !.alerts = @ + 1, !.awaiting = FALSE]

\* onRender turning the preview back on in its finally block
afterAwait_resume(p, outcome) ==
  LET q == IF outcome = "resolved"
           THEN [p EXCEPT !.downloads = @ + 1]
           ELSE [p EXCEPT !.alerts = @ + 1]
  IN [q EXCEPT !.flags[Len(p.flags)] = FALSE,
               !.isRendering = FALSE,
               !.isPreviewing = TRUE,
               !.progress = 100,
               !.awaiting = FALSE]

\* lines 114-122: onRender after its await, the promise settled as outcome
afterAwait(p, outcome) ==
  LET q == IF outcome = "resolved"
           THEN [p EXCEPT !.downloads = @ + 1]
           ELSE [p EXCEPT !.alerts = @ + 1]
  IN [q EXCEPT !.flags[Len(p.flags)] = FALSE,
               !.isRendering = FALSE,
               !.progress = 100,
               !.awaiting = FALSE]

\* the page's part of a step in which the session became s
Awaiter(p, s) ==
  IF p.awaiting /\ s.done \in {"resolved", "rejected"}
  THEN afterAwait(p, s.done)
  ELSE p

(***************************************************************************)
(* Actions.                                                                *)
(***************************************************************************)
Init ==
  /\ now = 0
  /\ host \in Hosts
  /\ session = NoSession
  /\ page = useEffect(Unmounted, 0)

\* the time the renderAtTime of a step took, the step leading from s to s2
Painted(s, s2, paint) == IF s2.renderCount > s.renderCount THEN paint ELSE 0

\* a caller other than the page calls recordCanvas(canvas, f, d, renderAtTime)
Capture ==
  /\ session.done = "none"
  /\ \E c \in Calls, lag \in 0..MaxSyncLag, throws \in BOOLEAN :
       LET s == recordCanvas(session, c[1], c[2], lag, c[3], throws)
           took == lag + Painted(session, s, c[3])
       IN /\ session' = [s EXCEPT !.lost = took]
          /\ now' = now + took
  /\ UNCHANGED <<host, page>>

\* a caller calls recordCanvas with arguments of PacedCalls
CapturePaced ==
  /\ session.done = "none"
  /\ \E c \in PacedCalls, lag \in 0..MaxSyncLag, throws \in BOOLEAN :
       LET s == recordCanvas(session, c[1], c[2], lag, c[3], throws)
           took == lag + Painted(session, s, c[3])
       IN /\ session' = [s EXCEPT !.lost = took]
          /\ now' = now + took
  /\ UNCHANGED <<host, page>>

\* a timeout set by run comes due and the host calls run
StepTimer ==
  /\ \E x \in session.timeouts, throws \in BOOLEAN :
       LET s == run([session EXCEPT !.timeouts = @ \ {x}], now, session.paint,
                    throws)
           took == Painted(session, s, session.paint)
       IN /\ now >= x.due
          /\ session' = [s EXCEPT !.late = @ \/ now > x.due,
                                  !.lost = @ + (now - x.due) + took]
          /\ now' = now + took
  /\ UNCHANGED <<host, page>>

\* the recording encoder delivers a timesliced chunk
OnDataAvailable ==
  /\ session.recorder = "recording"
  /\ "ondataavailable" \in session.handlers
  /\ Len(session.delivered) < (IF page.flags = <<>> THEN MaxChunks ELSE MaxPageChunks)
  /\ \E data \in ChunkData(Len(session.delivered) + 1) :
       session' = [ondataavailable(session, data) EXCEPT
                     !.delivered = Append(@, data)]
  /\ UNCHANGED <<now, host, page>>

\* the stopped encoder delivers its last chunk
OnFinalData ==
  /\ session.flush = "data"
  /\ "ondataavailable" \in session.handlers
  /\ \E data \in ChunkData(Len(session.delivered) + 1) :
       session' = [ondataavailable(session, data) EXCEPT
                     !.delivered = Append(@, data), !.flush = "stop"]
  /\ UNCHANGED <<now, host, page>>

\* the stopped encoder fires its stop event; an awaiting onRender goes on
OnStop ==
  /\ session.flush = "stop"
  /\ "onstop" \in session.handlers
  /\ session' = [onstop(session) EXCEPT
                   !.flush = "done", !.atStop = session.delivered]
  /\ page' = Awaiter(page, session')
  /\ UNCHANGED <<now, host>>

\* how far the clock is followed
Deadline ==
  IF session.clockTaken
  THEN session.started + Max(0, session.durationSec * 1000) + MaxOvertime
  ELSE MaxIdle

\* time passes until a pending timeout is due
ElapseToDue ==
  /\ \E x \in session.timeouts : x.due > now /\ now' = x.due
  /\ UNCHANGED <<host, session, page>>

\* time passes
ElapseStep ==
  /\ now + ClockStep <= Deadline
  /\ now' = now + ClockStep
  /\ UNCHANGED <<host, session, page>>

\* time passes during a capture of the page, in the exploration of the page
ElapseLong ==
  /\ session.clockTaken
  /\ now < Deadline
  /\ now' = now + PageClockStep
  /\ UNCHANGED <<host, session, page>>

\* onRender behind a button that is never disabled
onRender_enabled ==
  /\ Len(page.flags) < MaxCaptures
  /\ page.nextFrame <= MaxFrames
  /\ \E lag \in {0}, paint \in {0}, throws \in BOOLEAN :
       LET call == Len(page.flags) + 1
           p1 == [page EXCEPT !.isPreviewing = FALSE, !.isRendering = TRUE,
                              !.progress = 0, !.flags = Append(@, TRUE),
                              !.awaiting = TRUE]
           p2 == requestAnimationFrame(p1, "updateProgress", now, page.duration, call)
           s  == recordCanvas(session, page.fps, page.duration, lag, paint, throws)
           p3 == IF page.isPreviewing THEN useEffect(p2, now + lag) ELSE p2
       IN /\ session' = s
          /\ page' = Awaiter(p3, s)
          /\ now' = now + lag + paint
  /\ UNCHANGED host

\* page.tsx lines 96-123, the click on Render & Download: onRender up to
\* its await, the render of the state it set with the preview effect, and,
\* when recordCanvas has already failed, the rest of onRender.  The page's
\* durations are NaN or whole seconds from 1 up, so neither the time between
\* the two clock reads of recordCanvas nor the time its first renderAtTime
\* takes decides whether a step of the capture renders, the clock of the page
\* being followed in steps of PageClockStep.  The canvas is mounted, so line
\* 97 does not return
onRender ==
  /\ ~page.isRendering
  /\ Len(page.flags) < MaxCaptures
  /\ page.nextFrame <= MaxFrames
  /\ \E lag \in {0}, paint \in {0}, throws \in BOOLEAN :
       LET call == Len(page.flags) + 1
           p1 == [page EXCEPT !.isPreviewing = FALSE, !.isRendering = TRUE,
                              !.progress = 0, !.flags = Append(@, TRUE),
                              !.awaiting = TRUE]
           p2 == requestAnimationFrame(p1, "updateProgress", now, page.duration, call)
           s  == recordCanvas(session, page.fps, page.duration, lag, paint, throws)
           p3 == IF page.isPreviewing THEN useEffect(p2, now + lag) ELSE p2
       IN /\ session' = s
          /\ page' = Awaiter(p3, s)
          /\ now' = now + lag + paint
  /\ UNCHANGED host

\* line 141, the click on Pause / Resume Preview
TogglePreview ==
  /\ page.isPreviewing \/ page.nextFrame <= MaxFrames
  /\ page' = useEffect([page EXCEPT !.isPreviewing = ~@], now)
  /\ UNCHANGED <<now, host, session>>

\* line 193, the Duration input
SetDuration ==
  /\ ~page.isPreviewing \/ page.nextFrame <= MaxFrames
  /\ \E d \in PageDurations :
       /\ d # page.duration
       /\ page' = useEffect([page EXCEPT !.duration = d], now)
  /\ UNCHANGED <<now, host, session>>

\* line 189, the FPS input
SetFps ==
  /\ \E f \in PageFps :
       /\ f # page.fps
       /\ page' = [page EXCEPT !.fps = f]
  /\ UNCHANGED <<now, host, session>>

\* lines 159-216, the Template, Title Text, colour and size inputs: a change
\* of opts gives a new renderAtTime, on which the preview effect depends
SetOptions ==
  /\ ~page.isPreviewing \/ page.nextFrame <= MaxFrames
  /\ page' = useEffect(page, now)
  /\ UNCHANGED <<now, host, session>>

\* lines 82-87: an animation frame runs the preview loop
PreviewFrame ==
  /\ \E f \in page.frames, throws \in BOOLEAN :
       /\ f.cb = "loop"
       /\ LET p1 == [page EXCEPT !.frames = @ \ {f},
                                 !.t = PreviewTime(now - f.start, f.duration),
                                 !.overlap = @ \/ session.done = "pending"]
          IN IF throws
             THEN page' = p1
             ELSE /\ page.nextFrame <= MaxFrames
                  /\ page' = [requestAnimationFrame(p1, "loop", f.start, f.duration, 0)
                                EXCEPT !.raf = p1.nextFrame]
  /\ UNCHANGED <<now, host, session>>

\* lines 103-107: an animation frame runs updateProgress
ProgressFrame ==
  /\ \E f \in page.frames :
       /\ f.cb = "updateProgress"
       /\ LET elapsed == now - f.start
              p1 == [page EXCEPT !.frames = @ \ {f},
                                 !.progress = Progress(elapsed, f.duration)]
          IN IF f.duration # NaN /\ elapsed < f.duration * 1000 /\ page.flags[f.call]
             THEN /\ page.nextFrame <= MaxFrames
                  /\ page' = requestAnimationFrame(p1, "updateProgress", f.start,
                                                   f.duration, f.call)
             ELSE page' = p1
  /\ UNCHANGED <<now, host, session>>

\* recordCanvas under a caller of its own
Next ==
  \/ Capture
  \/ StepTimer
  \/ OnDataAvailable
  \/ OnFinalData
  \/ OnStop
  \/ ElapseToDue
  \/ ElapseStep

Spec == Init /\ [][Next]_vars

\* timers fire, the clock runs and the encoder answers stop()
FairSpec ==
  /\ Spec
  /\ WF_vars(StepTimer)
  /\ WF_vars(ElapseToDue)
  /\ WF_vars(ElapseStep)
  /\ WF_vars(OnFinalData)
  /\ WF_vars(OnStop)

\* recordCanvas paced: the captures in which the steps are counted
PacedNext ==
  \/ CapturePaced
  \/ StepTimer
  \/ OnDataAvailable
  \/ OnFinalData
  \/ OnStop
  \/ ElapseToDue
  \/ ElapseStep

PacedSpec == Init /\ [][PacedNext]_vars

\* the page and the captures it starts
PageNext ==
  \/ onRender
  \/ TogglePreview
  \/ SetDuration
  \/ SetFps
  \/ SetOptions
  \/ PreviewFrame
  \/ ProgressFrame
  \/ StepTimer
  \/ OnDataAvailable
  \/ OnFinalData
  \/ OnStop
  \/ ElapseLong

PageSpec == Init /\ [][PageNext]_vars

(***************************************************************************)
(* Properties.                                                             *)
(***************************************************************************)
Settled == {"resolved", "rejected"}

\* the position of event e in the lifecycle log, 0 when it has not occurred
Pos(e) ==
  IF e \in Range(session.log)
  THEN CHOOSE i \in 1..Len(session.log) : session.log[i] = e
  ELSE 0

\* if b has occurred, a occurred before it
Before(a, b) == Pos(b) > 0 => Pos(a) > 0 /\ Pos(a) < Pos(b)

\* the non-empty chunks of a sequence of chunk events, in order
NonEmpty(seq) == SelectSeq(seq, LAMBDA c : c.size > 0)

\* C1: in every run of recordCanvas the driver calls the encoder's stop at
\* most once and resolves the promise at most once, whatever the
\* interleaving of step timers, chunk events and the stop event; a settled
\* promise is resolved by exactly one call of resolve.
C1_StopAndResolveOnce ==
  /\ session.stopCalls <= 1
  /\ session.resolveCalls <= 1
  /\ session.resolveCalls = 1 => session.stopCalls = 1
  /\ session.done = "resolved" => session.resolveCalls = 1

\* a capture that rendered several steps, stopped and resolved
C1_Witness ==
  /\ session.done = "resolved"
  /\ session.stopCalls = 1
  /\ session.resolveCalls = 1
  /\ session.renderCount >= 2

\* C2: for every durationSec, 0 and negative ones included, when timers
\* fire, the clock runs and the encoder answers stop(), a capture whose
\* render callback does not throw is eventually resolved and does not stay
\* pending.
C2_EventuallyResolves ==
  [](session.done = "pending" => <>(session.done = "resolved" \/ session.threw))

\* a capture of non-positive duration resolved, with an artifact
C2_Witness ==
  /\ session.durationSec <= 0
  /\ session.done = "resolved"
  /\ session.blob # NoBlob

\* C3: on a host without MediaRecorder the call fails and nothing of a
\* session exists: no stream, no encoder created or started, no clock
\* origin, no timeout, no call of renderAtTime.
C3_UnsupportedFailsFast ==
  ~host.mediaRecorder /\ session.done # "none" =>
    /\ session.done = "rejected"
    /\ session.stream = "none"
    /\ session.recorder = "none"
    /\ session.startCalls = 0
    /\ ~session.clockTaken
    /\ session.timeouts = {}
    /\ session.renderCount = 0

\* recordCanvas was called on a host without MediaRecorder
C3_Witness == ~host.mediaRecorder /\ session.done = "rejected"

\* C4: when renderAtTime throws in a step of a capture, the first one or a
\* later one, the promise of the capture is rejected.
C4_ThrowRejects == session.threw => session.done = "rejected"

\* C5: while a capture started by onRender has not settled, no frame of the
\* preview loop calls renderAtTime.
C5_NoPreviewDuringCapture == ~page.overlap

\* a step in which the promise of a capture of the page settles: the click
\* itself when recordCanvas fails at once, the stop event otherwise
PageSettles ==
  /\ session'.done \in Settled
  /\ \/ Len(page'.flags) > Len(page.flags)
     \/ session.done = "pending" /\ page.awaiting

\* C6: whenever the promise of a capture settles, the page has isRendering
\* false and progress 100; on rejection it has shown one alert and started
\* no download, on resolution it has started one download and shown no
\* alert.
C6_SettleFreesPage ==
  [][PageSettles =>
       /\ ~page'.isRendering
       /\ page'.progress = 100
       /\ ~page'.awaiting
       /\ session'.done = "rejected" =>
            page'.alerts = page.alerts + 1 /\ page'.downloads = page.downloads
       /\ session'.done = "resolved" =>
            page'.downloads = page.downloads + 1 /\ page'.alerts = page.alerts
    ]_vars

\* the page after a rejected and a resolved capture, free for a next one
C6_Witness ==
  /\ page.alerts = 1
  /\ page.downloads = 1
  /\ ~page.isRendering
  /\ page.progress = 100

\* C7 as stated: for D >= 0 the count of renderAtTime calls of a resolved
\* capture is within 1 of D * F, whatever the latency of the timers.
C7_CountWithinOne ==
  session.done = "resolved" /\ session.durationSec >= 0 =>
    /\ session.renderCount * session.fps.den
         >= session.durationSec * session.fps.num - session.fps.den
    /\ session.renderCount * session.fps.den
         <= session.durationSec * session.fps.num + session.fps.den

\* floor(1000 / F) for F > 0: the whole ms the host waits before it calls a
\* step timeout back
StepDelay(F) == (1000 * F.den) \div F.num

\* the steps d ms apart that begin within D seconds, the first one lost ms
\* after the origin of the clock
StepsIn(D, d, lost) ==
  IF lost > D * 1000 THEN 0 ELSE ((D * 1000 - lost) \div d) + 1

\* C7 amended: for D >= 0 and 0 < F <= 1000, with d = floor(1000 / F) the ms
\* a step timeout waits, the count is never above floor(1000 D / d) + 1, and
\* the count of a resolved capture is at least floor((1000 D - L) / d) + 1,
\* L being the ms of latency of the capture: between its two clock reads,
\* in its renderAtTime calls, and of its timeouts called back late.
C7_CountBounded ==
  (/\ session.done # "none" /\ session.durationSec >= 0
   /\ session.fps.num > 0 /\ StepDelay(session.fps) >= 1) =>
    /\ session.renderCount
         <= StepsIn(session.durationSec, StepDelay(session.fps), 0)
    /\ session.done = "resolved" =>
         session.renderCount
           >= StepsIn(session.durationSec, StepDelay(session.fps), session.lost)

\* the scenario of fps 10 and duration 1, every timeout called back when it
\* was due and every renderAtTime taking 15 ms: 9 invocations, 135 ms lost
C7_Witness ==
  /\ session.done = "resolved"
  /\ session.fps = Whole(10)
  /\ session.durationSec = 1
  /\ ~session.late
  /\ session.lost = 9 * MaxPaint
  /\ session.renderCount = 9

\* C8: the chunk sequence is at every state the non-empty chunks delivered
\* so far, in delivery order, and the artifact is made of the non-empty
\* chunks delivered before the stop event.
C8_ChunksInDeliveryOrder ==
  /\ session.chunks = NonEmpty(session.delivered)
  /\ session.blob # NoBlob =>
       /\ session.blob.parts = NonEmpty(session.atStop)
       /\ session.atStop = session.delivered

\* an artifact of two chunks, an empty one skipped between them
C8_Witness ==
  /\ session.done = "resolved"
  /\ Len(session.blob.parts) = 2
  /\ Len(session.delivered) = 3
  /\ session.delivered[2].size = 0

\* C9: start is called once, after both handlers are installed and before
\* the first renderAtTime; stop is called after start and only by a step
\* that saw t > durationSec; the artifact is made only on the stop event.
C9_LifecycleOnce ==
  /\ session.startCalls <= 1
  /\ session.recorder # "none" => session.startCalls = 1
  /\ Before("ondataavailable", "start")
  /\ Before("onstop", "start")
  /\ Before("start", "render")
  /\ Before("start", "stop")
  /\ Before("stop", "blob")
  /\ session.stopCalls > 0 => session.t > session.durationSec * 1000
  /\ session.blob # NoBlob => session.flush = "done" /\ session.stopCalls = 1

\* a capture that rendered, stopped and made its artifact
C9_Witness ==
  /\ session.log = <<"ondataavailable", "onstop", "start", "render", "stop", "blob">>
  /\ session.done = "resolved"

\* C10: once a capture that opened a stream has ended, the tracks of the
\* stream are stopped and no step timeout is pending.
C10_ReleasedOnEnd ==
  session.done \in Settled /\ session.stream # "none" =>
    session.stream = "ended" /\ session.timeouts = {}

\* the clamp of a frame rate to [1, 60], rounded down after it
ClampThenFloor(fps) ==
  IF fps.num >= 60 * fps.den THEN 60
  ELSE IF fps.num <= fps.den THEN 1
  ELSE fps.num \div fps.den

\* C11: the frame rate the stream is opened at is a whole number from 1 to
\* 60, the clamp of fps to [1, 60] rounded down: 60 for every fps of 60 or
\* more (fps = 120 as fps = 60), 1 for every fps of 0 or less (as fps = 1).
C11_StreamRateClamped ==
  session.stream # "none" =>
    /\ session.streamRate \in 1..60
    /\ session.streamRate = ClampThenFloor(session.fps)
    /\ session.fps.num >= 60 * session.fps.den =>
         session.streamRate = 60 /\ session.streamRate = StreamRate(Whole(60))
    /\ session.fps.num <= 0 =>
         session.streamRate = 1 /\ session.streamRate = StreamRate(Whole(1))

\* a stream opened at 60 for a capture called with fps = 120
C11_Witness ==
  /\ session.stream = "live"
  /\ session.fps = Whole(120)
  /\ session.streamRate = 60

\* C12: the options of the encoder and the type of the artifact depend on
\* the support of the codec alone: the vp9 type when it is supported, the
\* bare video/webm otherwise, 6,000,000 bits per second in both; the type
\* of the artifact is the type of the options, one of the two video/webm
\* types.
C12_TypeFollowsCodec ==
  /\ session.options # NoOptions =>
       /\ session.options.videoBitsPerSecond = 6000000
       /\ host.vp9 => session.options.mimeType = "video/webm;codecs=vp9"
       /\ ~host.vp9 => session.options.mimeType = "video/webm"
  /\ session.recorder # "none" => session.options # NoOptions
  /\ session.blob # NoBlob =>
       /\ session.blob.type = session.options.mimeType
       /\ session.blob.type \in {"video/webm", "video/webm;codecs=vp9"}

\* an artifact of the vp9 type, made on a host that supports the codec
C12_Witness ==
  /\ host.vp9
  /\ session.done = "resolved"
  /\ session.blob.type = "video/webm;codecs=vp9"
  /\ session.options.videoBitsPerSecond = 6000000

\* C13: at most one capture of the page is unsettled at a time: isRendering
\* is true exactly while the promise of the latest recordCanvas call is
\* pending, at most one onRender call is at its await, and no click starts a
\* recordCanvas call while isRendering is true.
C13_OneCaptureAtATime ==
  /\ [](page.isRendering <=> session.done = "pending")
  /\ [](Cardinality({i \in 1..Len(page.flags) : page.flags[i]}) <= 1)
  /\ [][Len(page'.flags) > Len(page.flags) =>
          ~page.isRendering /\ session.done # "pending"]_vars

\* the second capture of the page pending, after the first was downloaded
C13_Witness ==
  /\ Len(page.flags) = 2
  /\ page.downloads = 1
  /\ page.isRendering
  /\ session.done = "pending"

\* a step of the page's capture that invoked renderAtTime
CaptureRendered ==
  \/ onRender /\ session'.renderCount = 1
  \/ StepTimer /\ session'.renderCount = session.renderCount + 1

\* C14: every t the capture passes to renderAtTime is from 0 to durationSec
\* and not below the t of the step before; every t the preview loop passes is
\* a number, at least 0 as every double of the model is, and below
\* max(0.001, duration).
C14_VirtualTimeWellFormed ==
  /\ [][CaptureRendered =>
          /\ session'.durationSec # NaN
          /\ 0 <= session'.t /\ session'.t <= session'.durationSec * 1000
          /\ StepTimer => session'.t >= session.t]_vars
  /\ [][PreviewFrame =>
          /\ page.duration # NaN
          /\ ~page'.t.nan
          /\ LessThan(page'.t, IF page.duration >= 1
                                THEN ToDouble(page.duration) ELSE Milli)]_vars

\* C15: the step that sees t > durationSec and stops the encoder invokes
\* renderAtTime no more and leaves no step scheduled; after it the capture
\* never invokes renderAtTime, never schedules a step and never stops again.
C15_StopIsFinal ==
  /\ [](session.stopCalls > 0 =>
         /\ session.timeouts = {}
         /\ session.t > session.durationSec * 1000)
  /\ [][session'.stopCalls > 0 =>
          /\ session'.renderCount = session.renderCount
          /\ session'.stopCalls = Max(1, session.stopCalls)
          /\ session'.timeouts = {}]_vars

\* a capture that rendered twice and stopped, a clock step after its stop
C15_Witness ==
  /\ session.stopCalls = 1
  /\ session.renderCount >= 2
  /\ session.done = "resolved"
  /\ now >= session.started + session.t + ClockStep

\* C16: at most one step timeout is pending, the one timer names; a step
\* whose renderAtTime returned sets exactly one timeout (a step it threw out
\* of sets none); the stopping step sets none.
C16_NoOverlap ==
  /\ [](Cardinality(session.timeouts) <= 1)
  /\ [](\A x \in session.timeouts : x.id = session.timer)
  /\ [][session'.renderCount = session.renderCount + 1 =>
          IF session'.threw
          THEN /\ session'.timeouts = {}
               /\ session'.nextHandle = session.nextHandle
          ELSE /\ Cardinality(session'.timeouts) = 1
               /\ session'.nextHandle = session.nextHandle + 1]_vars
  /\ [][session'.stopCalls > session.stopCalls =>
          /\ session'.timeouts = {}
          /\ session'.nextHandle = session.nextHandle]_vars

\* the third step of a capture pending, after two frames
C16_Witness ==
  /\ session.renderCount = 2
  /\ ~session.threw
  /\ Cardinality(session.timeouts) = 1
  /\ session.nextHandle = 3

\* max(200, floor(1000 / fps)), written out by the sign of fps
ChunkInterval(fps) ==
  IF fps.num = 0 THEN Infinity
  ELSE IF fps.num < 0 THEN 200
  ELSE Max(200, (1000 * fps.den) \div fps.num)

\* C17: the encoder is started with the interval max(200, floor(1000/fps)) of
\* the caller's fps: at least 200 ms for every fps >= 1 and exactly 200 ms
\* for every fps >= 5.
C17_ChunkIntervalFloor ==
  session.startCalls > 0 =>
    /\ session.timeslice = ChunkInterval(session.fps)
    /\ session.fps.num >= session.fps.den => session.timeslice >= 200
    /\ session.fps.num >= 5 * session.fps.den => session.timeslice = 200

\* an encoder started with 222 ms for fps = 4.5
C17_Witness ==
  /\ session.fps = Frac(9, 2)
  /\ session.recorder = "recording"
  /\ session.timeslice = 222

\* C18: every step timeout is requested with the delay 1000 / fps of the
\* caller's fps, not of the rate of the stream: shorter than 1000 / 60 ms
\* for fps > 60, with the stream opened at 60, and longer than 1000 ms for
\* fps between 0 and 1, with the stream opened at 1.
C18_PacingUnclamped ==
  \A x \in session.timeouts :
    /\ x.delay.num * session.fps.num = 1000 * session.fps.den * x.delay.den
    /\ session.fps.num > 60 * session.fps.den =>
         /\ 60 * x.delay.num < 1000 * x.delay.den
         /\ session.streamRate = 60
    /\ session.fps.num > 0 /\ session.fps.num < session.fps.den =>
         /\ x.delay.num > 1000 * x.delay.den
         /\ session.streamRate = 1

\* the second step of a capture at fps = 120 pending, its stream opened at 60
C18_Witness ==
  /\ session.fps = Whole(120)
  /\ session.streamRate = 60
  /\ session.renderCount = 1
  /\ \E x \in session.timeouts : x.delay = Frac(1000, 120) /\ x.due = session.started + 8

\* the page but for what the end of onRender writes: isRendering, progress,
\* and the model's record of the call
BesideRendering(p) ==
  [p EXCEPT !.isRendering = FALSE, !.progress = 0, !.awaiting = FALSE,
            !.flags = <<>>, !.downloads = 0, !.alerts = 0]

\* C19: onRender turns isPreviewing off; the end of onRender changes
\* isRendering and progress and nothing else of the page; isPreviewing
\* becomes true again only by the click on the toggle, and while it is false
\* no frame of the preview loop is requested.
C19_PreviewStaysOff ==
  /\ [][onRender => ~page'.isPreviewing]_vars
  /\ [][page.awaiting /\ ~page'.awaiting =>
          /\ BesideRendering(page') = BesideRendering(page)
          /\ ~page'.isRendering /\ page'.progress = 100]_vars
  /\ [][~page.isPreviewing /\ page'.isPreviewing => TogglePreview]_vars
  /\ [](~page.isPreviewing => \A f \in page.frames : f.cb # "loop")

\* a capture rendered and downloaded, the preview still off
C19_Witness ==
  /\ page.downloads = 1
  /\ ~page.isRendering
  /\ ~page.isPreviewing
  /\ page.progress = 100
  /\ session.done = "resolved"
  /\ session.renderCount >= 1
  /\ now > session.started

====
